---------------------------- MODULE Spec2Model ----------------------------
(***************************************************************************)
(* US University Recommender: the search driver of app.py (initial fetch,  *)
(* broaden_search, document scoring, table building), the Scorecard client *)
(* of src/scorecard_api.py, _dedup_results, the cost aggregation and       *)
(* acceptance_probability of src/acceptance.py.                            *)
(*                                                                         *)
(* Strings are sequences of word tokens (" " is a run of whitespace), so   *)
(* that strip(), lower() and the substring test are computed.  Floats are  *)
(* fixed-point integers in units of 1/Scale.  Python's None is None for    *)
(* numbers and NoneStr for strings.                                        *)
(***************************************************************************)
EXTENDS Integers, Sequences, FiniteSets, TLC

VARIABLES
    pc,               \* position of the script run (app.py:148-277)
    course,           \* sidebar text input (app.py:106)
    world,            \* the upstream dataset behind the Scorecard API
    CIP_BUNDLES,      \* optional table (app.py:37-41)
    TITLE_SYNONYMS,   \* optional table (app.py:37-41)
    cip4,             \* app.py:153
    title_contains,   \* app.py:154
    results,          \* app.py:157, 173
    first_results,    \* broaden_search's argument
    all_rows,         \* app.py:68
    cip_candidates,   \* app.py:72-74
    synonyms,         \* app.py:89
    ci,               \* index of the candidate being paged
    page,             \* loop variable of the paging loops
    log,              \* history: every collaborator call, in order
    afterBundle,      \* history: len(all_rows) at app.py:85, None before
    upload,           \* the uploaded document, read at app.py:191
    lor_score,        \* app.py:189
    lor_details,      \* app.py:190
    table,            \* the rendered result table (app.py:196-254)
    err,              \* which uncaught exception ended the run
    args,             \* arguments of a function applied on its own
    ret               \* its result

drv  == <<cip4, title_contains, results, first_results, all_rows,
         cip_candidates, synonyms, ci, page>>
inp  == <<course, world, CIP_BUNDLES, TITLE_SYNONYMS>>
doc  == <<upload, lor_score, lor_details, table>>
hist == <<log, afterBundle>>
fn   == <<args, ret>>
vars == <<pc, inp, drv, hist, doc, err, fn>>

---------------------------------------------------------------------------
(* Bounds of the model *)

\* longest CIP_BUNDLES entry drawn
MaxBundle == 3
\* longest TITLE_SYNONYMS entry drawn
MaxSyn == 2
\* longest row sequence given to _dedup_results on its own
MaxLen == 4

---------------------------------------------------------------------------
(* Values *)

None == 0 - 1
NoneStr == <<"<None>">>

\* fixed-point unit of the float arithmetic
Scale == 10000

Min(a, b) == IF a < b THEN a ELSE b
Max(a, b) == IF a > b THEN a ELSE b

\* Python truthiness of an optional number / an optional string
TruthyInt(v) == v # None /\ v # 0
TruthyStr(s) == s # NoneStr /\ s # <<>>

---------------------------------------------------------------------------
(* Strings *)

\* str.lower() on one token
LowerTok(t) ==
    CASE t = "Data"      -> "data"
      [] t = "Science"   -> "science"
      [] t = "Analytics" -> "analytics"
      [] t = "Computer"  -> "computer"
      [] t = "General"   -> "general"
      [] t = "Studies"   -> "studies"
      [] t = "Basket"    -> "basket"
      [] t = "Weaving"   -> "weaving"
      [] OTHER           -> t

lower(s) == [i \in 1..Len(s) |-> LowerTok(s[i])]

RECURSIVE lstrip(_)
lstrip(s) == IF s # <<>> /\ Head(s) = " " THEN lstrip(Tail(s)) ELSE s

RECURSIVE rstrip(_)
rstrip(s) ==
    IF s # <<>> /\ s[Len(s)] = " " THEN rstrip(SubSeq(s, 1, Len(s) - 1)) ELSE s

strip(s) == rstrip(lstrip(s))

\* t in x, for strings
Contains(t, x) ==
    \E k \in 0..(Len(x) - Len(t)) : SubSeq(x, k + 1, k + Len(t)) = t

\* (course or "").strip().lower()   (app.py:69, app.py:152)
CourseKey(c) == lower(strip(IF c = NoneStr THEN <<>> ELSE c))

---------------------------------------------------------------------------
(* src/cip_map.py *)

CIP_MAP ==
    { <<<<"data", "science">>, 3070>>,
      <<<<"data", "analytics">>, 3071>>,
      <<<<"business", "analytics">>, 3071>>,
      <<<<"artificial", "intelligence">>, 1101>>,
      <<<<"machine", "learning">>, 1107>>,
      <<<<"computer", "science">>, 1107>>,
      <<<<"information", "systems">>, 1104>>,
      <<<<"information", "technology">>, 1101>>,
      <<<<"software", "engineering">>, 1402>>,
      <<<<"electrical", "engineering">>, 1410>>,
      <<<<"computer", "engineering">>, 1409>>,
      <<<<"information", "systems", "(business)">>, 5203>> }

\* CIP_MAP.get(key)
CIP_MAP_get(key) ==
    IF \E e \in CIP_MAP : e[1] = key
    THEN (CHOOSE e \in CIP_MAP : e[1] = key)[2]
    ELSE None

---------------------------------------------------------------------------
(* _dedup_results (app.py:48-57) *)

\* faulty variant: the key without the state
DedupKeyByName(r) == <<r.school_name>>

\* key = (r.get("school.name"), r.get("school.state"))
DedupKey(r) == <<r.school_name, r.school_state>>

\* faulty variant: the append outside the `if`
DedupStepKeepAll(st, r) ==
    [seen |-> st.seen \cup {DedupKey(r)}, out |-> Append(st.out, r)]

\* one iteration of the for loop, st = [seen, out]
DedupStep(st, r) ==
    IF DedupKey(r) \notin st.seen
    THEN [seen |-> st.seen \cup {DedupKey(r)}, out |-> Append(st.out, r)]
    ELSE st

\* the for loop over rows[lo..hi], left to right, from loop state st (the
\* test on left only fixes the order of evaluation: left before right)
RECURSIVE DedupLoop(_, _, _, _)
DedupLoop(rows, lo, hi, st) ==
    IF lo > hi THEN st
    ELSE IF lo = hi THEN DedupStep(st, rows[lo])
    ELSE LET mid  == (lo + hi) \div 2
             left == DedupLoop(rows, lo, mid, st)
         IN  IF Len(left.out) >= 0
             THEN DedupLoop(rows, mid + 1, hi, left)
             ELSE left

_dedup_results(rows) ==
    DedupLoop(rows, 1, Len(rows), [seen |-> {}, out |-> <<>>]).out

---------------------------------------------------------------------------
(* Cost aggregation of one row (app.py:203-214) *)

\* `x or 0`
OrZero(v) == IF TruthyInt(v) THEN v ELSE 0

\* faulty variant: books added into the yearly total
CostRowWithBooks(r, budget) ==
    LET in_tuition  == OrZero(r.in_state)
        out_tuition == OrZero(r.out_of_state)
        room        == OrZero(r.roomboard)
        other       == OrZero(r.other_on_campus)
        books       == OrZero(r.booksupply)
        tuition     == IF TruthyInt(out_tuition) THEN out_tuition ELSE in_tuition
        living      == OrZero(room) + OrZero(other)
        per_year    == OrZero(tuition) + living + books
        two_year    == 2 * per_year
    IN  [ tuition |-> tuition, living |-> living, books |-> books,
          per_year |-> per_year, two_year |-> two_year,
          meets_budget |-> two_year <= budget ]

CostRow(r, budget) ==
    LET in_tuition  == OrZero(r.in_state)
        out_tuition == OrZero(r.out_of_state)
        room        == OrZero(r.roomboard)
        other       == OrZero(r.other_on_campus)
        books       == OrZero(r.booksupply)
        tuition     == IF TruthyInt(out_tuition) THEN out_tuition ELSE in_tuition
        living      == OrZero(room) + OrZero(other)
        per_year    == OrZero(tuition) + living
        two_year    == 2 * per_year
    IN  [ tuition |-> tuition, living |-> living, books |-> books,
          per_year |-> per_year, two_year |-> two_year,
          meets_budget |-> two_year <= budget ]

---------------------------------------------------------------------------
(* src/utils.py, in fixed point: a float x is the integer x * Scale *)

\* n/d as a float
Frac(n, d) == (n * Scale) \div d

\* clamp (utils.py:8-9)
clamp(x, lo, hi) == Max(lo, Min(hi, x))

\* math.exp for x <= 0: halve the argument until the series converges
\* fast, then square back
RECURSIVE ExpNeg(_)
ExpNeg(x) ==
    IF x < 0 - (Scale \div 8)
    THEN LET h == ExpNeg(x \div 2) IN (h * h) \div Scale
    ELSE LET t2 == (x * x) \div (2 * Scale)
             t3 == (t2 * x) \div (3 * Scale)
             t4 == (t3 * x) \div (4 * Scale)
         IN  Scale + x + t2 + t3 + t4

\* math.exp
Exp(x) == IF x <= 0 THEN ExpNeg(x) ELSE (Scale * Scale) \div Max(1, ExpNeg(0 - x))

Ln2 == Frac(6931, 10000)

\* math.log for x >= 1: halve down to [1, 2), then the atanh series
RECURSIVE LnGe1(_)
LnGe1(x) ==
    IF x >= 2 * Scale
    THEN Ln2 + LnGe1(x \div 2)
    ELSE LET y  == ((x - Scale) * Scale) \div (x + Scale)
             y2 == (y * y) \div Scale
             y3 == (y * y2) \div Scale
             y5 == (y3 * y2) \div Scale
             y7 == (y5 * y2) \div Scale
         IN  2 * (y + y3 \div 3 + y5 \div 5 + y7 \div 7)

\* math.log, x > 0
Ln(x) == IF x >= Scale THEN LnGe1(x) ELSE 0 - LnGe1((Scale * Scale) \div x)

\* 1e-6 is below the unit: one unit stands for it
Eps == Max(1, Scale \div 1000000)

\* logit (utils.py:11-13)
logit(p) ==
    LET q == clamp(p, Eps, Scale - Eps)
    IN  Ln((q * Scale) \div (Scale - q))

\* inv_logit (utils.py:15-16)
inv_logit(z) == (Scale * Scale) \div (Scale + Exp(0 - z))

---------------------------------------------------------------------------
(* src/acceptance.py *)

\* normalize_scores (acceptance.py:8-18); gre is a plain number, the
\* others are floats
normalize_scores(cgpa, gre, ielts, lor_sop) ==
    [ gpa   |-> clamp(((cgpa - Frac(25, 10)) * Scale) \div Frac(15, 10), 0, Scale),
      gre   |-> IF gre # None /\ gre > 0
                THEN clamp(((gre - 290) * Scale) \div (340 - 290), 0, Scale)
                ELSE None,
      ielts |-> IF ielts # None /\ ielts > 0
                THEN clamp(((ielts - Frac(55, 10)) * Scale) \div Frac(35, 10),
                           0, Scale)
                ELSE None,
      lor   |-> clamp(lor_sop, 0, Scale) ]

\* sum of a sequence of numbers
RECURSIVE SumSeq(_)
SumSeq(q) == IF q = <<>> THEN 0 ELSE Head(q) + SumSeq(Tail(q))

\* acceptance.py:21-44: base, and the shifted probability before the last
\* clamp; early is the `if not feats: return base` exit
Shifted(baseline_rate, cgpa, gre, ielts, lor_sop) ==
    LET base == clamp(IF baseline_rate # None THEN baseline_rate ELSE Frac(1, 2),
                      Frac(2, 100), Frac(98, 100))
        n    == normalize_scores(cgpa, gre, ielts, lor_sop)
        fw   == (IF n.gpa # None THEN << <<n.gpa, Frac(40, 100)>> >> ELSE <<>>)
                \o (IF n.gre # None THEN << <<n.gre, Frac(35, 100)>> >> ELSE <<>>)
                \o (IF n.ielts # None THEN << <<n.ielts, Frac(15, 100)>> >> ELSE <<>>)
                \o (IF n.lor # None THEN << <<n.lor, Frac(10, 100)>> >> ELSE <<>>)
        wsum == SumSeq([k \in 1..Len(fw) |-> fw[k][2]])
        match == (SumSeq([k \in 1..Len(fw) |-> (fw[k][1] * fw[k][2]) \div Scale])
                  * Scale) \div wsum
        beta == Frac(16, 10)
        z    == logit(base) + (beta * (match - Frac(1, 2))) \div Scale
    IN  IF fw = <<>>
        THEN [early |-> TRUE, v |-> base]
        ELSE [early |-> FALSE, v |-> inv_logit(z)]

\* faulty variant: the last clamp left out
acceptance_probability_unclamped(baseline_rate, cgpa, gre, ielts, lor_sop) ==
    Shifted(baseline_rate, cgpa, gre, ielts, lor_sop).v

\* acceptance_probability (acceptance.py:20-45)
acceptance_probability(baseline_rate, cgpa, gre, ielts, lor_sop) ==
    LET r == Shifted(baseline_rate, cgpa, gre, ielts, lor_sop)
    IN  IF r.early THEN r.v ELSE clamp(r.v, Frac(1, 100), Frac(99, 100))

---------------------------------------------------------------------------
(* The upstream dataset behind the Scorecard API.  A world holds          *)
(* institutions 1..size; institution i offers 3070 when step divides i,   *)
(* 3071 when i is even, 1107 when 50 divides i, and 1101 always; names    *)
(* repeat every nameMod institutions.                                      *)

Worlds ==
    [size : {0, 38, 40, 250, 320}, nameMod : {12, 1000}, step : {1, 2, 20}]

CodesOf(w, i) ==
    {1101} \cup (IF i % w.step = 0 THEN {3070} ELSE {})
           \cup (IF i % 2 = 0 THEN {3071} ELSE {})
           \cup (IF i % 50 = 0 THEN {1107} ELSE {})

TitlesOf(w, i) ==
    (IF 3070 \in CodesOf(w, i) THEN << <<"Data", "Science">> >> ELSE <<>>)
    \o (IF 3071 \in CodesOf(w, i) THEN << <<"Data", "Analytics">> >> ELSE <<>>)
    \o (IF 1107 \in CodesOf(w, i) THEN << <<"Computer", "Science">> >> ELSE <<>>)
    \o << <<"General", "Studies">> >>

\* one record of the API's "results", with the FIELDS the search reads
Inst(w, i) ==
    [ id           |-> i,
      school_name  |-> ((i - 1) % w.nameMod) + 1,
      school_state |-> IF i % 3 = 0 THEN "CA" ELSE "TX",
      titles       |-> TitlesOf(w, i) ]

\* DEFAULT_PER_PAGE (scorecard_api.py:32) and the page test of app.py
DEFAULT_PER_PAGE == 100

\* the institutions the server matches: all of them, or those offering code
Matching(w, code) ==
    SelectSeq([i \in 1..w.size |-> i],
              LAMBDA i : code = None \/ code \in CodesOf(w, i))

\* the server's page `pg` of a query (per_page = DEFAULT_PER_PAGE)
UpstreamPage(w, code, pg) ==
    LET m    == Matching(w, code)
        from == pg * DEFAULT_PER_PAGE + 1
        to   == Min(Len(m), (pg + 1) * DEFAULT_PER_PAGE)
    IN  [k \in 1..Max(0, to - from + 1) |-> Inst(w, m[from + k - 1])]

\* whether the server holds records of the query after page `pg`
UpstreamMore(w, code, pg) == Len(Matching(w, code)) > (pg + 1) * DEFAULT_PER_PAGE

---------------------------------------------------------------------------
(* ScorecardClient (src/scorecard_api.py) *)

\* faulty variant: a failed request answered as an empty page
ClientGetSwallow(w, code, pg, ok) ==
    [raised |-> FALSE, results |-> IF ok THEN UpstreamPage(w, code, pg) ELSE <<>>]

\* _get: requests.get(..., timeout=30); raise_for_status(); r.json()
\* ok is the transport's outcome: FALSE for a timeout, a network error or a
\* non-2xx status
ClientGet(w, code, pg, ok) ==
    IF ok THEN [raised |-> FALSE, results |-> UpstreamPage(w, code, pg)]
          ELSE [raised |-> TRUE, results |-> <<>>]

\* the client-side filter of search (scorecard_api.py:80-91)
TitleFilter(rows, kw) ==
    LET t == lower(kw)
    IN  SelectSeq(rows,
                  LAMBDA row : \E x \in 1..Len(row.titles) :
                                   Contains(t, lower(row.titles[x])))

\* the code parameter sent: params[...code] = cip4 only `if cip4`
SentCode(c) == IF TruthyInt(c) THEN c ELSE None

\* search(cip4=c, title_contains=kw, page=pg)
ClientSearch(w, c, kw, pg, ok) ==
    LET data == ClientGet(w, SentCode(c), pg, ok)
    IN  IF data.raised THEN data
        ELSE IF TruthyStr(kw)
             THEN [raised |-> FALSE, results |-> TitleFilter(data.results, kw)]
             ELSE data

\* what the history records of one call
LogEntry(tier, w, c, kw, pg, ok, data) ==
    [ tier |-> tier, cip4 |-> c, title_contains |-> kw, page |-> pg, ok |-> ok,
      raw  |-> IF ok THEN Len(UpstreamPage(w, SentCode(c), pg)) ELSE 0,
      more |-> ok /\ UpstreamMore(w, SentCode(c), pg),
      n    |-> Len(data.results) ]

---------------------------------------------------------------------------
(* The optional tables of app.py:37-41 (absent from src/cip_map.py, so    *)
(* empty in this repository; a deployment may define them)                *)

BundlePool == <<3070, 1101, 3071, 1107, 1104>>
SynPool == << <<"Studies">>, <<"data">>, <<"analytics">>, <<"science">> >>

KeyDS == <<"data", "science">>
KeyBW == <<"basket", "weaving">>

BundleTables ==
    { [k \in {} |-> <<>>] } \cup
    { [k \in {KeyDS, KeyBW} |-> SubSeq(BundlePool, 1, n)] : n \in 1..MaxBundle }

SynonymTables ==
    { [k \in {} |-> <<>>] } \cup
    { [k \in {KeyDS} |-> SubSeq(SynPool, 1, n)] : n \in 1..MaxSyn }

Courses ==
    { <<"Data", "Science">>, <<" ", "data", "science", " ">>,
      <<"Basket", "Weaving">>, <<"Studies">>, <<>> }

---------------------------------------------------------------------------
(* broaden_search (app.py:59-98) *)

\* max_pages as the driver passes it (app.py:181); the initial fetch pages
\* over range(0, 3) (app.py:158)
max_pages == 3
InitialPages == 3

\* the sparse-results threshold (app.py:65, app.py:85)
Enough == 20

\* faulty variant: > in place of >=
EnoughStrict(rows) == Len(rows) > Enough

\* len(rows) >= 20
IsEnough(rows) == Len(rows) >= Enough

\* faulty variant: the resolved code not skipped
CipCandidatesAll(tbl, key, resolved) ==
    IF key \in DOMAIN tbl THEN tbl[key] ELSE <<>>

\* cip_candidates (app.py:72-74)
CipCandidates(tbl, key, resolved) ==
    IF key \in DOMAIN tbl
    THEN SelectSeq(tbl[key], LAMBDA c : c # resolved)
    ELSE <<>>

\* synonyms = TITLE_SYNONYMS.get(key, [course]) if course else []
Synonyms(tbl, key, c) ==
    IF TruthyStr(c)
    THEN (IF key \in DOMAIN tbl THEN tbl[key] ELSE <<c>>)
    ELSE <<>>

\* faulty variant: paging until a short page, whatever max_pages
LastPageNoCap(rs, pg, pages) == Len(rs) < DEFAULT_PER_PAGE

\* `if len(rs) < 100: break`, or the range is exhausted
LastPage(rs, pg, pages) == Len(rs) < DEFAULT_PER_PAGE \/ pg + 1 >= pages

---------------------------------------------------------------------------
(* Document scoring (src/lor_sop_nlp.py), as the driver sees it: the      *)
(* heuristics are opaque, the call either raises or returns (score,       *)
(* details).                                                               *)

\* what the user uploaded: nothing, a .txt, a PDF pdfplumber reads, a PDF
\* only pypdf reads, a PDF neither reads
Uploads == {"none", "txt", "pdf", "pdf_fallback", "pdf_corrupt"}

DocScores == {0, Scale}

\* extract_text (lor_sop_nlp.py:21-31): .txt decodes with errors="ignore";
\* a PDF goes to pdfplumber and, when that raises, to PdfReader, whose
\* exception is not caught
ExtractRaises(u) == u = "pdf_corrupt"

\* score_document (lor_sop_nlp.py:87-115); modelOk: SentenceTransformer
\* loads in _init_model (lor_sop_nlp.py:16-19); s: the heuristic score
ScoreDocument(u, modelOk, s) ==
    IF ExtractRaises(u) \/ ~modelOk
    THEN [raised |-> TRUE, score |-> None, details |-> {}]
    ELSE [raised |-> FALSE, score |-> s,
          details |-> {"kind", "words", "len", "coherence", "readability",
                       "lexical_diversity", "phrase_boost"}]

---------------------------------------------------------------------------
(* The script run (app.py:148-277) *)

Terminal == {"done", "error", "stopped"}

Blank ==
    /\ cip4 = None /\ title_contains = NoneStr
    /\ results = <<>> /\ first_results = <<>> /\ all_rows = <<>>
    /\ cip_candidates = <<>> /\ synonyms = <<>> /\ ci = 0 /\ page = 0
    /\ log = <<>> /\ afterBundle = None
    /\ upload = "none" /\ lor_score = Scale \div 2 /\ lor_details = {}
    /\ table = <<>> /\ err = "none"

Init ==
    /\ pc = "idle"
    /\ course \in Courses
    /\ world \in Worlds
    /\ CIP_BUNDLES \in BundleTables
    /\ TITLE_SYNONYMS \in SynonymTables
    /\ Blank
    /\ args = <<>> /\ ret = <<>>

\* faulty variant: the course text is passed as the keyword even when the
\* course resolved to a code
StartKeywordAlways ==
    /\ pc = "idle"
    /\ cip4' = CIP_MAP_get(CourseKey(course))
    /\ title_contains' = course
    /\ results' = <<>>
    /\ page' = 0
    /\ pc' = "initial"
    /\ UNCHANGED <<inp, first_results, all_rows, cip_candidates, synonyms, ci,
                   hist, doc, err, fn>>

\* the button is pressed: app.py:148-157
Start ==
    /\ pc = "idle"
    /\ cip4' = CIP_MAP_get(CourseKey(course))
    /\ title_contains' = IF TruthyInt(cip4') THEN NoneStr ELSE course
    /\ results' = <<>>
    /\ page' = 0
    /\ pc' = "initial"
    /\ UNCHANGED <<inp, first_results, all_rows, cip_candidates, synonyms, ci,
                   hist, doc, err, fn>>

\* an exception of the collaborator is caught nowhere: the run ends
Raise(cause) ==
    /\ pc' = "error"
    /\ err' = cause

\* one iteration of the initial fetch (app.py:158-170)
InitialFetch ==
    /\ pc = "initial"
    /\ \E ok \in BOOLEAN :
         LET data == ClientSearch(world, cip4, title_contains, page, ok)
         IN  /\ log' = Append(log, LogEntry("initial", world, cip4,
                                            title_contains, page, ok, data))
             /\ IF data.raised
                THEN /\ Raise("collaborator")
                     /\ UNCHANGED <<results, page>>
                ELSE /\ results' = results \o data.results
                     /\ err' = err
                     /\ IF LastPage(data.results, page, InitialPages)
                        THEN pc' = "broaden" /\ page' = 0
                        ELSE pc' = pc /\ page' = page + 1
    /\ UNCHANGED <<inp, cip4, title_contains, first_results, all_rows,
                   cip_candidates, synonyms, ci, afterBundle, doc, fn>>

\* broaden_search is called (app.py:173) and runs to its first loop
\* (app.py:65-74)
BroadenEnter ==
    /\ pc = "broaden"
    /\ first_results' = results
    /\ IF IsEnough(results)
       THEN /\ pc' = "check"
            /\ UNCHANGED <<results, all_rows, cip_candidates, ci>>
       ELSE /\ all_rows' = results
            /\ cip_candidates' =
                   CipCandidates(CIP_BUNDLES, CourseKey(course), cip4)
            /\ ci' = 1
            /\ pc' = "bundle"
            /\ UNCHANGED results
    /\ page' = 0
    /\ UNCHANGED <<inp, cip4, title_contains, synonyms, hist, doc, err, fn>>

\* one iteration of the inner loop of the bundle tier (app.py:76-82)
BundleFetch ==
    /\ pc = "bundle"
    /\ ci <= Len(cip_candidates)
    /\ \E ok \in BOOLEAN :
         LET c    == cip_candidates[ci]
             data == ClientSearch(world, c, NoneStr, page, ok)
         IN  /\ log' = Append(log, LogEntry("bundle", world, c, NoneStr,
                                            page, ok, data))
             /\ IF data.raised
                THEN /\ Raise("collaborator")
                     /\ UNCHANGED <<all_rows, ci, page>>
                ELSE /\ all_rows' = all_rows \o data.results
                     /\ pc' = pc /\ err' = err
                     /\ IF LastPage(data.results, page, max_pages)
                        THEN ci' = ci + 1 /\ page' = 0
                        ELSE ci' = ci /\ page' = page + 1
    /\ UNCHANGED <<inp, cip4, title_contains, results, first_results,
                   cip_candidates, synonyms, afterBundle, doc, fn>>

\* the bundle tier is over: app.py:84-89
BundleDone ==
    /\ pc = "bundle"
    /\ ci > Len(cip_candidates)
    /\ all_rows' = _dedup_results(all_rows)
    /\ afterBundle' = Len(all_rows')
    /\ IF IsEnough(all_rows')
       THEN /\ results' = all_rows'
            /\ pc' = "check"
            /\ UNCHANGED <<synonyms, ci>>
       ELSE /\ synonyms' = Synonyms(TITLE_SYNONYMS, CourseKey(course), course)
            /\ ci' = 1
            /\ pc' = "synonym"
            /\ UNCHANGED results
    /\ page' = 0
    /\ UNCHANGED <<inp, cip4, title_contains, first_results, cip_candidates,
                   log, doc, err, fn>>

\* one iteration of the inner loop of the synonym tier (app.py:90-96)
SynonymFetch ==
    /\ pc = "synonym"
    /\ ci <= Len(synonyms)
    /\ \E ok \in BOOLEAN :
         LET kw   == synonyms[ci]
             data == ClientSearch(world, None, kw, page, ok)
         IN  /\ log' = Append(log, LogEntry("synonym", world, None, kw,
                                            page, ok, data))
             /\ IF data.raised
                THEN /\ Raise("collaborator")
                     /\ UNCHANGED <<all_rows, ci, page>>
                ELSE /\ all_rows' = all_rows \o data.results
                     /\ pc' = pc /\ err' = err
                     /\ IF LastPage(data.results, page, max_pages)
                        THEN ci' = ci + 1 /\ page' = 0
                        ELSE ci' = ci /\ page' = page + 1
    /\ UNCHANGED <<inp, cip4, title_contains, results, first_results,
                   cip_candidates, synonyms, afterBundle, doc, fn>>

\* the synonym tier is over: app.py:98
SynonymDone ==
    /\ pc = "synonym"
    /\ ci > Len(synonyms)
    /\ results' = _dedup_results(all_rows)
    /\ pc' = "check"
    /\ UNCHANGED <<inp, cip4, title_contains, first_results, all_rows,
                   cip_candidates, synonyms, ci, page, hist, doc, err, fn>>

\* app.py:184-186
EmptyCheck ==
    /\ pc = "check"
    /\ pc' = IF results = <<>> THEN "stopped" ELSE "score"
    /\ UNCHANGED <<inp, drv, hist, doc, err, fn>>

\* app.py:188-193
ScoreDoc ==
    /\ pc = "score"
    /\ \E u \in Uploads, modelOk \in BOOLEAN, s \in DocScores :
         /\ upload' = u
         /\ IF u = "none"
            THEN /\ lor_score' = Scale \div 2
                 /\ lor_details' = {}
                 /\ pc' = "table" /\ err' = err
            ELSE LET d == ScoreDocument(u, modelOk, s)
                 IN  IF d.raised
                     THEN /\ Raise("document")
                          /\ lor_score' = Scale \div 2
                          /\ lor_details' = {}
                     ELSE /\ lor_score' = d.score
                          /\ lor_details' = d.details
                          /\ pc' = "table" /\ err' = err
    /\ UNCHANGED <<inp, drv, hist, table, fn>>

\* one row of the table (app.py:198-235): the columns that identify the
\* institution and the document score its estimate used
TableRow(r, lor) ==
    [Institution |-> r.school_name, State |-> r.school_state, lor_sop |-> lor]

\* app.py:195-254
BuildTable ==
    /\ pc = "table"
    /\ table' = [k \in 1..Len(results) |-> TableRow(results[k], lor_score)]
    /\ pc' = "done"
    /\ UNCHANGED <<inp, drv, hist, upload, lor_score, lor_details, err, fn>>

Next ==
    \/ Start
    \/ InitialFetch
    \/ BroadenEnter
    \/ BundleFetch
    \/ BundleDone
    \/ SynonymFetch
    \/ SynonymDone
    \/ EmptyCheck
    \/ ScoreDoc
    \/ BuildTable

Spec == Init /\ [][Next]_vars

---------------------------------------------------------------------------
(* Properties of the search run *)

\* broaden_search has returned to the driver
BroadenReturned ==
    pc \in {"check", "score", "table", "done", "stopped"}
    \/ (pc = "error" /\ err = "document")

\* the collaborator calls broaden_search issued
BroadenCalls == SelectSeq(log, LAMBDA e : e.tier # "initial")

\* no two elements share the (school.name, school.state) key
NoDupKeys(rows) ==
    Cardinality({ <<rows[i].school_name, rows[i].school_state>> :
                    i \in 1..Len(rows) }) = Len(rows)

\* rows the collaborator returned over the whole run
Fetched(k) == IF k = 0 THEN 0 ELSE log[k].n

\* C1: with 20 or more first_results, broaden_search returns exactly
\* first_results (same rows, order and length) and calls the collaborator
\* not once.
C1_ShortCircuit ==
    (pc \notin {"idle", "initial", "broaden"} /\ Len(first_results) >= 20)
        => /\ BroadenCalls = <<>>
           /\ results = first_results
           /\ pc \notin {"bundle", "synonym"}

C1_Witness ==
    /\ pc = "done"
    /\ Len(first_results) = 20
    /\ results = first_results
    /\ CIP_BUNDLES # <<>>

\* C2 as stated: whatever first_results and the responses, the sequence
\* broaden_search returns holds no two rows with the same key.
C2_AlwaysResultSet == BroadenReturned => NoDupKeys(results)

\* C2 amended: with fewer than 20 first_results the sequence returned holds
\* no two rows with the same key (20 or more are returned as they came,
\* duplicates included).
C2_SparseResultSet ==
    (BroadenReturned /\ Len(first_results) < 20) => NoDupKeys(results)

C2_Witness ==
    /\ pc = "done"
    /\ Len(first_results) < 20
    /\ ~NoDupKeys(first_results)
    /\ \E i \in 1..Len(log) : log[i].tier = "synonym" /\ log[i].n > 0
    /\ NoDupKeys(results)

\* the candidates of a run, counted from the tables: bundle codes other
\* than the resolved code, plus synonym keywords
NumCandidates ==
    LET key == CourseKey(course)
        b   == IF key \in DOMAIN CIP_BUNDLES THEN CIP_BUNDLES[key] ELSE <<>>
        nb  == Cardinality({i \in 1..Len(b) : b[i] # CIP_MAP_get(key)})
        ns  == IF course = <<>> THEN 0
               ELSE IF key \in DOMAIN TITLE_SYNONYMS
                    THEN Len(TITLE_SYNONYMS[key]) ELSE 1
    IN  nb + ns

AllShort == \A i \in 1..Len(log) :
                log[i].tier # "initial" => log[i].n < 100

\* the steps a run may still take, at most: the pages left to request in
\* the loop it is in, then the positions left to pass
Variant ==
    LET left(n) == (n - ci + 1) * 3 - page
    IN  CASE pc = "idle"    -> 9000
          [] pc = "initial" -> 8000 + (3 - page)
          [] pc = "broaden" -> 7000
          [] pc = "bundle"  -> 6000 + left(Len(cip_candidates))
          [] pc = "synonym" -> 5000 + left(Len(synonyms))
          [] pc = "check"   -> 4000
          [] pc = "score"   -> 3000
          [] pc = "table"   -> 2000
          [] OTHER          -> 0

\* C4: broaden_search terminates (every step of a run lowers a
\* natural-number variant, so no loop goes on for ever), with at most
\* max_pages calls per candidate, and at most one call per candidate when
\* every page is short.
C4_Terminates ==
    /\ [][Variant' < Variant]_vars
    /\ [](Variant >= 0)
    /\ [](Len(BroadenCalls) <= 3 * NumCandidates)
    /\ [](AllShort => Len(BroadenCalls) <= NumCandidates)

C4_Witness ==
    /\ pc = "done"
    /\ NumCandidates >= 2
    /\ Len(BroadenCalls) = 3 * NumCandidates
    /\ \A i \in 1..Len(log) : log[i].tier # "initial" => log[i].n = 100

\* C5: a document the scorer fails on does not abort the search: the
\* score is the neutral 0.5 with empty details and the table is produced.
C5_DocFailureDegrades ==
    (upload = "pdf_corrupt" /\ pc \in Terminal)
        => /\ pc = "done"
           /\ lor_score = Scale \div 2 /\ lor_details = {}
           /\ Len(table) = Len(results)
           /\ \A k \in 1..Len(table) : table[k].lor_sop = Scale \div 2

\* C6: a failed collaborator call ends the search in an error: it is the
\* last call made (no retry, nothing after it) and no table is shown.
C6_FailureAborts ==
    \A i \in 1..Len(log) :
        ~log[i].ok => /\ i = Len(log)
                      /\ pc = "error"
                      /\ table = <<>>

C6_Witness ==
    /\ pc = "error"
    /\ Len(log) >= 3
    /\ ~log[Len(log)].ok
    /\ log[Len(log)].tier = "synonym"
    /\ all_rows # <<>>

\* C9: paging of a query that stops before max_pages pages does so only
\* on a page whose underlying upstream page held fewer than 100 records,
\* so that upstream holds no further page.
C9_StopsOnlyAtEnd ==
    \A i \in 1..Len(log) :
        (log[i].ok /\ log[i].n < 100 /\ log[i].page + 1 < 3)
            => (log[i].raw < 100 /\ ~log[i].more)

\* C10: bundle calls all precede synonym calls; a synonym call is made
\* only after every bundle candidate was paged to its end and fewer than
\* 20 distinct rows were held; no bundle call uses the resolved code.
C10_TierOrder ==
    LET resolved == CIP_MAP_get(CourseKey(course))
        key      == CourseKey(course)
        bundle   == IF key \in DOMAIN CIP_BUNDLES THEN CIP_BUNDLES[key] ELSE <<>>
    IN  /\ \A i, j \in 1..Len(log) :
               (i < j /\ log[i].tier = "synonym") => log[j].tier = "synonym"
        /\ \A i \in 1..Len(log) :
               log[i].tier = "bundle"
                   => /\ log[i].cip4 # resolved
                      /\ log[i].title_contains = NoneStr
        /\ \A i \in 1..Len(log) :
               log[i].tier = "synonym"
                   => /\ log[i].cip4 = None
                      /\ afterBundle # None /\ afterBundle < 20
                      /\ \A k \in 1..Len(bundle) :
                             bundle[k] # resolved
                                 => \E j \in 1..(i - 1) :
                                        /\ log[j].tier = "bundle"
                                        /\ log[j].cip4 = bundle[k]
                                        /\ (log[j].n < 100 \/ log[j].page = 2)

C10_Witness ==
    /\ pc = "done"
    /\ \E i, j \in 1..Len(log) :
           /\ log[i].tier = "bundle" /\ log[i].page = 2
           /\ log[j].tier = "synonym" /\ log[j].n > 0
    /\ CIP_MAP_get(CourseKey(course)) # None

\* what drives one recorded call: search adds the code parameter only
\* `if cip4` and filters by title only `if title_contains`
DrivenByCode(e) == e.cip4 # None /\ e.cip4 # 0

DrivenByKeyword(e) == e.title_contains # NoneStr /\ e.title_contains # <<>>

ExactlyOneDriver(e) == DrivenByCode(e) # DrivenByKeyword(e)

\* the course name, case-folded and trimmed, is a key of the mapping table
Resolves(c) == \E m \in CIP_MAP : m[1] = lower(strip(c))

\* the initial fetch passes the mapped code when the course resolves and
\* the course text as the keyword otherwise
InitialRule(e) ==
    IF Resolves(course)
    THEN /\ <<lower(strip(course)), e.cip4>> \in CIP_MAP
         /\ e.title_contains = NoneStr
    ELSE /\ e.cip4 = None
         /\ e.title_contains = course

\* C11 as stated: every call of a search (initial fetch, bundle tier,
\* synonym tier), whatever the course text, the empty one included, is
\* driven by exactly one of a program code and a title keyword, and the
\* initial fetch uses the code when the course resolves, the keyword
\* otherwise.
C11_ExactlyOneDriver ==
    \A i \in 1..Len(log) :
        /\ ExactlyOneDriver(log[i])
        /\ log[i].tier = "initial" => InitialRule(log[i])

\* C11 amended: no call is driven by both; the initial fetch passes the
\* code when the course resolves and the course text otherwise; every call
\* of a search with a non-empty course text is driven by exactly one of
\* the two; with an empty course text every call issued is an initial
\* fetch driven by neither (a search by location alone).
C11_ExactlyOneDriverUnlessEmpty ==
    \A i \in 1..Len(log) :
        /\ ~(DrivenByCode(log[i]) /\ DrivenByKeyword(log[i]))
        /\ log[i].tier = "initial" => InitialRule(log[i])
        /\ course # <<>> => ExactlyOneDriver(log[i])
        /\ course = <<>> => /\ log[i].tier = "initial"
                            /\ ~DrivenByCode(log[i])
                            /\ ~DrivenByKeyword(log[i])

\* a finished search whose course needed folding and trimming to resolve,
\* with calls of all three tiers recorded
C11_Witness ==
    /\ pc = "done"
    /\ course # lower(strip(course))
    /\ Resolves(course)
    /\ \E i, j, k \in 1..Len(log) :
           /\ log[i].tier = "initial" /\ DrivenByCode(log[i])
           /\ log[j].tier = "bundle" /\ DrivenByCode(log[j])
           /\ log[k].tier = "synonym" /\ DrivenByKeyword(log[k])

---------------------------------------------------------------------------
(* The pure functions on their own: Init draws the arguments, one step    *)
(* applies the function.  The search's variables stay blank.              *)

NoSearch ==
    /\ course = <<>>
    /\ world = [size |-> 0, nameMod |-> 1000, step |-> 1]
    /\ CIP_BUNDLES = [k \in {} |-> <<>>]
    /\ TITLE_SYNONYMS = [k \in {} |-> <<>>]
    /\ Blank

\* --- _dedup_results

DedupRows ==
    [id : {1, 2}, school_name : {1, 2}, school_state : {"TX", "CA"},
     titles : {<<>>}]

InitDedup ==
    /\ pc = "dedup_call"
    /\ NoSearch
    /\ args \in UNION {[1..n -> DedupRows] : n \in 0..MaxLen}
    /\ ret = <<>>

ApplyDedup ==
    /\ pc = "dedup_call"
    /\ ret' = _dedup_results(args)
    /\ pc' = "dedup_ret"
    /\ UNCHANGED <<inp, drv, hist, doc, err, args>>

NextDedup == ApplyDedup

SpecDedup == InitDedup /\ [][NextDedup]_vars

\* the positions whose key occurs at no earlier position
FirstSeen(rows) ==
    {i \in 1..Len(rows) :
        \A j \in 1..(i - 1) :
            <<rows[j].school_name, rows[j].school_state>>
                # <<rows[i].school_name, rows[i].school_state>>}

\* the k-th smallest element of a set of numbers
Kth(S, k) == CHOOSE i \in S : Cardinality({j \in S : j <= i}) = k

\* C3: _dedup_results returns exactly the rows at the first-seen
\* positions, in their order: the first occurrence of each key is kept,
\* every key stays, no key repeats.
C3_DedupStable ==
    pc = "dedup_ret"
        => /\ Len(ret) = Cardinality(FirstSeen(args))
           /\ \A k \in 1..Len(ret) : ret[k] = args[Kth(FirstSeen(args), k)]
           /\ NoDupKeys(ret)
           /\ {<<ret[k].school_name, ret[k].school_state>> : k \in 1..Len(ret)}
                = {<<args[k].school_name, args[k].school_state>> :
                     k \in 1..Len(args)}

C3_Witness ==
    /\ pc = "dedup_ret"
    /\ Len(args) = 4 /\ Len(ret) = 2
    /\ ret[1].school_name = ret[2].school_name
    /\ ret[1].school_state # ret[2].school_state
    /\ args[3] # ret[1]
    /\ args[3].school_name = ret[1].school_name
    /\ args[3].school_state = ret[1].school_state

\* --- the cost aggregation

CostInputs ==
    [ r : [ in_state        : {None, 0, 20000},
            out_of_state    : {None, 0, 35000},
            roomboard       : {None, 0, 10000},
            other_on_campus : {None, 0, 2000},
            booksupply      : {None, 0, 1200} ],
      budget : {10000, 90000, 94000, 95200} ]

InitCost ==
    /\ pc = "cost_call"
    /\ NoSearch
    /\ args \in CostInputs
    /\ ret = <<>>

ApplyCost ==
    /\ pc = "cost_call"
    /\ ret' = CostRow(args.r, args.budget)
    /\ pc' = "cost_ret"
    /\ UNCHANGED <<inp, drv, hist, doc, err, args>>

NextCost == ApplyCost

SpecCost == InitCost /\ [][NextCost]_vars

\* a missing field counts as 0
Zero(v) == IF v = None THEN 0 ELSE v

\* C8: tuition is the out-of-state figure when that is above 0 and the
\* in-state one otherwise, living = room/board + other, perYear = tuition
\* + living, twoYear = 2 * perYear, withinBudget iff twoYear <= budget;
\* books enter none of them.
C8_CostArithmetic ==
    pc = "cost_ret"
        => LET r       == args.r
               tuition == IF Zero(r.out_of_state) > 0
                          THEN Zero(r.out_of_state) ELSE Zero(r.in_state)
               living  == Zero(r.roomboard) + Zero(r.other_on_campus)
           IN  /\ ret.tuition = tuition
               /\ ret.living = living
               /\ ret.per_year = tuition + living
               /\ ret.two_year = 2 * (tuition + living)
               /\ ret.meets_budget <=> (2 * (tuition + living) <= args.budget)
               /\ ret.books = Zero(r.booksupply)

C8_Witness ==
    /\ pc = "cost_ret"
    /\ args.r.in_state = 20000 /\ args.r.out_of_state = 35000
    /\ args.r.roomboard = 10000 /\ args.r.other_on_campus = 2000
    /\ args.r.booksupply = 1200 /\ args.budget = 90000
    /\ ret.tuition = 35000 /\ ret.living = 12000 /\ ret.per_year = 47000
    /\ ret.two_year = 94000 /\ ~ret.meets_budget

\* --- acceptance_probability

AcceptInputs ==
    [ baseline_rate : {None, 0, Frac(30, 100), Frac(98, 100), Scale},
      cgpa          : {0, Frac(25, 10), Frac(36, 10), Frac(40, 10)},
      gre           : {None, 0, 290, 320, 340},
      ielts         : {None, 0, Frac(55, 10), Frac(70, 10), Frac(90, 10)},
      lor_sop       : {0, Frac(1, 2), Scale} ]

InitAccept ==
    /\ pc = "accept_call"
    /\ NoSearch
    /\ args \in AcceptInputs
    /\ ret = <<>>

ApplyAccept ==
    /\ pc = "accept_call"
    /\ ret' = acceptance_probability(args.baseline_rate, args.cgpa, args.gre,
                                     args.ielts, args.lor_sop)
    /\ pc' = "accept_ret"
    /\ UNCHANGED <<inp, drv, hist, doc, err, args>>

NextAccept == ApplyAccept

SpecAccept == InitAccept /\ [][NextAccept]_vars

\* C7: whatever the baseline rate and the profile, the probability
\* returned lies in [0.01, 0.99], so it is never 0 or 1.
C7_ProbabilityClamped ==
    pc = "accept_ret"
        => /\ ret >= Frac(1, 100)
           /\ ret <= Frac(99, 100)
           /\ ret # 0 /\ ret # Scale

C7_Witness ==
    /\ pc = "accept_ret"
    /\ args.baseline_rate = 0
    /\ args.gre = None /\ args.ielts = None
    /\ ret = Frac(1, 100)

============================================================================
